---- MODULE Spec2Model ----
\* Model of the IPv4 network / subnet / reservation allocation engine of
\* pkg/csi/network.go.  Addresses are unsigned integers (10.0.0.0 = 167772160),
\* a CIDR block is a record [IP, Mask] with Mask the prefix length.
EXTENDS Integers, Sequences, FiniteSets, TLC

VARIABLES iNet, ret, pc, calls

vars == <<iNet, ret, pc, calls>>

\* ---------------------------------------------------------------- bounds
MaxSubnets == 2
MaxReservations == 3
MaxCallers == 2

\* ---------------------------------------------------------------- inputs
TenNet == 10 * 16777216
Nil == 0 - 1
NoErr == "nil"

NetCIDRs == { [IP |-> TenNet, Mask |-> 27], [IP |-> TenNet, Mask |-> 28] }
Masks == 27 .. 30
SubnetNames == { "a", "A" }
LookupNames == SubnetNames \cup { "cabinet_1" }
VlanIDs == { 1 }
DesiredNets ==
    { [IP |-> TenNet, Mask |-> 29],
      [IP |-> TenNet + 4, Mask |-> 30],
      [IP |-> TenNet + 8, Mask |-> 29],
      [IP |-> TenNet, Mask |-> 26],
      [IP |-> TenNet + 32, Mask |-> 29] }
ReservationNames == { "a", "b" }
Comments == { "x3000" }
Pins == { 2, 3, 4, 6 }
SubnetCIDRs ==
    { [IP |-> TenNet, Mask |-> 28],
      [IP |-> TenNet + 8, Mask |-> 29],
      [IP |-> TenNet + 4, Mask |-> 30] }
CabinetInputs ==
    { << [Kind |-> "river", CabinetDetails |-> << [ID |-> 1, VlanID |-> 0], [ID |-> 2, VlanID |-> 0] >>] >>,
      << [Kind |-> "river", CabinetDetails |-> << [ID |-> 1, VlanID |-> 0] >>],
         [Kind |-> "hill", CabinetDetails |-> << [ID |-> 5, VlanID |-> 9] >>],
         [Kind |-> "river", CabinetDetails |-> << [ID |-> 3, VlanID |-> 0] >>] >> }
CabinetTypes == { "river", "hill" }
GenMasks == { 29, 30 }

\* ------------------------------------------------------ address arithmetic
Pow2(n) == 2 ^ n

BlockSize(mask) == Pow2(32 - mask)

Add(ip, n) == ip + n

NetworkAddress(block) == (block.IP \div BlockSize(block.Mask)) * BlockSize(block.Mask)

Broadcast(block) == NetworkAddress(block) + BlockSize(block.Mask) - 1

Contains(outer, inner) ==
    /\ inner.Mask >= outer.Mask
    /\ (inner.IP \div BlockSize(outer.Mask)) * BlockSize(outer.Mask) = NetworkAddress(outer)

Overlaps(a, b) ==
    /\ NetworkAddress(a) <= Broadcast(b)
    /\ NetworkAddress(b) <= Broadcast(a)

RECURSIVE CountIn(_, _)
CountIn(a, list) ==
    IF list = << >> THEN 0
    ELSE (IF Head(list) = a THEN 1 ELSE 0) + CountIn(a, Tail(list))

NetIPInSlice(a, list) == CountIn(a, list)

\* ------------------------------------------------------- free-block search
\* Candidate(k): the k-th block of the desired size counted from the parent's
\* network address.
Candidate(network, mask, k) ==
    [IP |-> NetworkAddress(network) + k * BlockSize(mask), Mask |-> mask]

CandidateFree(network, c, subnets) ==
    /\ Contains(network, c)
    /\ \A i \in 1 .. Len(subnets) : ~ Overlaps(c, subnets[i])

CandidateCount(network, mask) ==
    IF mask < network.Mask THEN 1 ELSE Pow2(mask - network.Mask)

\* Variant of Free that walks the sibling list once, stepping to the next
\* candidate each time the sibling under the cursor overlaps the current one.
RECURSIVE PassSiblings(_, _, _, _)
PassSiblings(network, mask, k, subnets) ==
    IF subnets = << >> THEN k
    ELSE PassSiblings(network, mask,
                      IF Overlaps(Candidate(network, mask, k), Head(subnets)) THEN k + 1 ELSE k,
                      Tail(subnets))

FreeSinglePass(network, mask, subnets) ==
    LET k == PassSiblings(network, mask, 0, subnets)
    IN  IF k >= CandidateCount(network, mask) \/ ~ Contains(network, Candidate(network, mask, k))
        THEN [net |-> [IP |-> Nil, Mask |-> 0], err |-> "NoSpaceAvailable"]
        ELSE [net |-> Candidate(network, mask, k), err |-> NoErr]

\* Free returns [net, err]: the first free candidate, or an error when the
\* search runs past the end of the parent.
Free(network, mask, subnets) ==
    LET ks == { k \in 0 .. CandidateCount(network, mask) - 1 :
                    CandidateFree(network, Candidate(network, mask, k), subnets) }
    IN  IF ks = {}
        THEN [net |-> [IP |-> Nil, Mask |-> 0], err |-> "NoSpaceAvailable"]
        ELSE [net |-> Candidate(network, mask, CHOOSE k \in ks : \A j \in ks : k <= j),
              err |-> NoErr]

\* ----------------------------------------------------------------- network
BlankSubnet ==
    [CIDR |-> [IP |-> Nil, Mask |-> 0], IPReservations |-> << >>, Name |-> "",
     NetName |-> "", VlanID |-> 0, Gateway |-> Nil, DHCPStart |-> Nil, DHCPEnd |-> Nil]

RECURSIVE AllocatedFrom(_, _)
AllocatedFrom(subnets, i) ==
    IF i > Len(subnets) THEN << >>
    ELSE << subnets[i].CIDR >> \o AllocatedFrom(subnets, i + 1)

\* Variant of AllocatedSubnets that misses the first subnet.
AllocatedSubnetsSkipFirst(n) == AllocatedFrom(n.Subnets, 2)

AllocatedSubnets(n) == AllocatedFrom(n.Subnets, 1)

\* Variant of SubnetbyCIDR that forgets the VLAN id.
SubnetbyCIDRNoVlan(desiredNet, name, vlanID) ==
    [BlankSubnet EXCEPT !.CIDR = desiredNet, !.Name = name,
                        !.Gateway = Add(desiredNet.IP, 1)]

\* The subnet literal AddSubnetbyCIDR appends.
SubnetbyCIDR(desiredNet, name, vlanID) ==
    [BlankSubnet EXCEPT !.CIDR = desiredNet, !.Name = name,
                        !.Gateway = Add(desiredNet.IP, 1), !.VlanID = vlanID]

\* AddSubnetbyCIDR: append when the block is contained in the network.
AddSubnetbyCIDR(desiredNet, name, vlanID) ==
    /\ pc = "running"
    /\ Len(iNet.Subnets) < MaxSubnets
    /\ IF Contains(iNet.CIDR, desiredNet)
       THEN /\ iNet' = [iNet EXCEPT !.Subnets = Append(@, SubnetbyCIDR(desiredNet, name, vlanID))]
            /\ ret' = [op |-> "AddSubnetbyCIDR", name |-> name, mask |-> desiredNet.Mask,
                       cidr |-> desiredNet, vlanID |-> vlanID,
                       subnet |-> Len(iNet.Subnets) + 1, err |-> NoErr]
       ELSE /\ iNet' = iNet
            /\ ret' = [op |-> "AddSubnetbyCIDR", name |-> name, mask |-> desiredNet.Mask,
                       cidr |-> desiredNet, vlanID |-> vlanID,
                       subnet |-> 0, err |-> "OutOfRange"]
    /\ UNCHANGED << pc, calls >>

\* Variant of AddSubnetResult that puts the new subnet in front of the list.
AddSubnetResultPrepend(n, mask, name, vlanID) ==
    LET f == Free(n.CIDR, mask, AllocatedSubnets(n))
    IN  IF f.err # NoErr
        THEN [net |-> n, subnet |-> 0, err |-> f.err]
        ELSE [net |-> [n EXCEPT !.Subnets = <<
                          [BlankSubnet EXCEPT !.CIDR = f.net, !.Name = name,
                                              !.NetName = n.Name,
                                              !.Gateway = Add(f.net.IP, 1),
                                              !.VlanID = vlanID] >> \o @],
              subnet |-> 1, err |-> NoErr]

\* Variant of AddSubnetResult that appends the block even when the search failed.
AddSubnetResultNoErrCheck(n, mask, name, vlanID) ==
    LET f == Free(n.CIDR, mask, AllocatedSubnets(n))
    IN  [net |-> [n EXCEPT !.Subnets = Append(@,
                     [BlankSubnet EXCEPT !.CIDR = f.net, !.Name = name,
                                         !.NetName = n.Name,
                                         !.Gateway = Add(f.net.IP, 1),
                                         !.VlanID = vlanID])],
         subnet |-> Len(n.Subnets) + 1, err |-> f.err]

\* The effect of AddSubnet on the network and its return value, as a function:
\* [net, subnet, err] with subnet the index of the returned subnet (0 = a fresh
\* blank subnet that is not in the list).
AddSubnetResult(n, mask, name, vlanID) ==
    LET f == Free(n.CIDR, mask, AllocatedSubnets(n))
    IN  IF f.err # NoErr
        THEN [net |-> n, subnet |-> 0, err |-> f.err]
        ELSE [net |-> [n EXCEPT !.Subnets = Append(@,
                          [BlankSubnet EXCEPT !.CIDR = f.net, !.Name = name,
                                              !.NetName = n.Name,
                                              !.Gateway = Add(f.net.IP, 1),
                                              !.VlanID = vlanID])],
              subnet |-> Len(n.Subnets) + 1, err |-> NoErr]

AddSubnet(mask, name, vlanID) ==
    /\ pc = "running"
    /\ Len(iNet.Subnets) < MaxSubnets
    /\ LET r == AddSubnetResult(iNet, mask, name, vlanID)
       IN  /\ iNet' = r.net
           /\ ret' = [op |-> "AddSubnet", name |-> name, mask |-> mask,
                      subnet |-> r.subnet, err |-> r.err]
    /\ UNCHANGED << pc, calls >>

\* AddSubnet as the steps of one of several callers that run it on the same
\* network with nothing between them: the argument iNet.AllocatedSubnets() is
\* evaluated, ipam.Free chooses, and the append reads iNet.Subnets and then
\* stores the longer list.  calls[c] holds caller c's locals.
Callers == 1 .. MaxCallers

IdleCall ==
    [at |-> "idle", mask |-> 0, name |-> "", vlanID |-> 0, siblings |-> << >>,
     block |-> [IP |-> Nil, Mask |-> 0], loaded |-> << >>, err |-> NoErr]

NoCalls == [c \in Callers |-> IdleCall]

ReadSiblings(c, mask, name, vlanID) ==
    /\ pc = "running"
    /\ calls[c].at = "idle"
    /\ calls' = [calls EXCEPT ![c] = [@ EXCEPT !.at = "read", !.mask = mask, !.name = name,
                                                !.vlanID = vlanID,
                                                !.siblings = AllocatedSubnets(iNet)]]
    /\ UNCHANGED << iNet, ret, pc >>

\* Variant of ChooseBlock that searches without the sibling list it read.
ChooseBlockIgnoreSiblings(c) ==
    /\ calls[c].at = "read"
    /\ LET f == Free(iNet.CIDR, calls[c].mask, << >>)
       IN  calls' = [calls EXCEPT ![c] = [@ EXCEPT
                        !.at = IF f.err # NoErr THEN "done" ELSE "chosen",
                        !.block = f.net, !.err = f.err]]
    /\ UNCHANGED << iNet, ret, pc >>

ChooseBlock(c) ==
    /\ calls[c].at = "read"
    /\ LET f == Free(iNet.CIDR, calls[c].mask, calls[c].siblings)
       IN  calls' = [calls EXCEPT ![c] = [@ EXCEPT
                        !.at = IF f.err # NoErr THEN "done" ELSE "chosen",
                        !.block = f.net, !.err = f.err]]
    /\ UNCHANGED << iNet, ret, pc >>

LoadSubnets(c) ==
    /\ calls[c].at = "chosen"
    /\ calls' = [calls EXCEPT ![c] = [@ EXCEPT !.at = "loaded", !.loaded = iNet.Subnets]]
    /\ UNCHANGED << iNet, ret, pc >>

\* The subnet literal of the append of AddSubnet, from caller c's locals.
CallSubnet(n, call) ==
    [BlankSubnet EXCEPT !.CIDR = call.block, !.Name = call.name, !.NetName = n.Name,
                        !.Gateway = Add(call.block.IP, 1), !.VlanID = call.vlanID]

StoreSubnets(c) ==
    /\ calls[c].at = "loaded"
    /\ iNet' = [iNet EXCEPT !.Subnets = Append(calls[c].loaded, CallSubnet(iNet, calls[c]))]
    /\ calls' = [calls EXCEPT ![c] = [@ EXCEPT !.at = "done"]]
    /\ UNCHANGED << ret, pc >>

\* AddBiggestSubnet: try AddSubnet with /i for i = maskSize, maskSize+1, ...
\* while i < BiggestLoopEnd; the first success is returned.
BiggestLoopEnd == 29

RECURSIVE BiggestFrom(_, _, _, _)
BiggestFrom(n, i, name, vlanID) ==
    IF i < BiggestLoopEnd
    THEN LET r == AddSubnetResult(n, i, name, vlanID)
         IN  IF r.err = NoErr THEN r ELSE BiggestFrom(n, i + 1, name, vlanID)
    ELSE [net |-> n, subnet |-> 0, err |-> "NoSpaceAvailable"]

AddBiggestSubnet(mask, name, vlanID) ==
    /\ pc = "running"
    /\ Len(iNet.Subnets) < MaxSubnets
    /\ LET r == BiggestFrom(iNet, mask, name, vlanID)
       IN  /\ iNet' = r.net
           /\ ret' = [op |-> "AddBiggestSubnet", name |-> name, mask |-> mask,
                      subnet |-> r.subnet, err |-> r.err]
    /\ UNCHANGED << pc, calls >>

\* int16 conversion and addition wrap to 16 bits.
Int16(x) == ((x + 32768) % 65536) - 32768

CabinetName(id) == "cabinet_" \o ToString(id)

\* One iteration of the inner loop of GenSubnets for cabinet number j (0-based)
\* of a group; st = [mySubnets, myIPv4Subnets, err].
GenCabinet(n, st, mask, j, cab) ==
    LET f == Free(n.CIDR, mask, st.mySubnets)
        tmpVlanID == IF cab.VlanID = 0 THEN Int16(Int16(j) + n.VlanRange[1])
                     ELSE cab.VlanID
        tempSubnet == [BlankSubnet EXCEPT
                          !.CIDR = f.net,
                          !.Name = CabinetName(cab.ID),
                          !.Gateway = Add(f.net.IP, 1),
                          !.VlanID = tmpVlanID,
                          !.DHCPStart = Add(f.net.IP, 0 + 2),
                          !.DHCPEnd = Add(Broadcast(f.net), 0 - 1)]
    IN  IF f.err # NoErr
        THEN [st EXCEPT !.mySubnets = Append(@, f.net), !.err = f.err]
        ELSE [st EXCEPT !.mySubnets = Append(@, f.net),
                        !.myIPv4Subnets = Append(@, tempSubnet)]

RECURSIVE GenCabinets(_, _, _, _, _)
GenCabinets(n, st, mask, cabs, j) ==
    IF st.err # NoErr \/ j >= Len(cabs) THEN st
    ELSE GenCabinets(n, GenCabinet(n, st, mask, j, cabs[j + 1]), mask, cabs, j + 1)

\* Variant of GenGroups that serves the cabinets of every group, whatever its kind.
RECURSIVE GenGroupsAnyKind(_, _, _, _, _, _)
GenGroupsAnyKind(n, st, mask, cabinetType, cabinetDetails, g) ==
    IF st.err # NoErr \/ g > Len(cabinetDetails) THEN st
    ELSE GenGroupsAnyKind(n,
                          GenCabinets(n, st, mask, cabinetDetails[g].CabinetDetails, 0),
                          mask, cabinetType, cabinetDetails, g + 1)

RECURSIVE GenGroups(_, _, _, _, _, _)
GenGroups(n, st, mask, cabinetType, cabinetDetails, g) ==
    IF st.err # NoErr \/ g > Len(cabinetDetails) THEN st
    ELSE GenGroups(n,
                   IF cabinetType = cabinetDetails[g].Kind
                   THEN GenCabinets(n, st, mask, cabinetDetails[g].CabinetDetails, 0)
                   ELSE st,
                   mask, cabinetType, cabinetDetails, g + 1)

RECURSIVE CabinetCount(_, _)
CabinetCount(cabinetDetails, g) ==
    IF g > Len(cabinetDetails) THEN 0
    ELSE Len(cabinetDetails[g].CabinetDetails) + CabinetCount(cabinetDetails, g + 1)

\* Variant of GenSubnets that stores the subnets made so far when the search fails.
GenSubnetsPartial(cabinetDetails, mask, cabinetType) ==
    /\ pc = "running"
    /\ Len(iNet.Subnets) + CabinetCount(cabinetDetails, 1) <= MaxSubnets + 1
    /\ LET st == GenGroups(iNet,
                           [mySubnets |-> AllocatedSubnets(iNet),
                            myIPv4Subnets |-> iNet.Subnets, err |-> NoErr],
                           mask, cabinetType, cabinetDetails, 1)
       IN  /\ iNet' = [iNet EXCEPT !.Subnets = st.myIPv4Subnets]
           /\ ret' = [op |-> "GenSubnets", name |-> cabinetType, mask |-> mask,
                      cabinetDetails |-> cabinetDetails, subnet |-> 0, err |-> st.err]
    /\ UNCHANGED << pc, calls >>

GenSubnets(cabinetDetails, mask, cabinetType) ==
    /\ pc = "running"
    /\ Len(iNet.Subnets) + CabinetCount(cabinetDetails, 1) <= MaxSubnets + 1
    /\ LET st == GenGroups(iNet,
                           [mySubnets |-> AllocatedSubnets(iNet),
                            myIPv4Subnets |-> iNet.Subnets, err |-> NoErr],
                           mask, cabinetType, cabinetDetails, 1)
       IN  /\ iNet' = IF st.err # NoErr THEN iNet
                      ELSE [iNet EXCEPT !.Subnets = st.myIPv4Subnets]
           /\ ret' = [op |-> "GenSubnets", name |-> cabinetType, mask |-> mask,
                      cabinetDetails |-> cabinetDetails, subnet |-> 0, err |-> st.err]
    /\ UNCHANGED << pc, calls >>

\* LookUpSubnet returns [subnet, err]; subnet is the index of the returned
\* subnet in the list, 0 for a fresh blank subnet.
Found(n, name) == { i \in 1 .. Len(n.Subnets) : n.Subnets[i].Name = name }

First(S) == CHOOSE i \in S : \A j \in S : i <= j

Last(S) == CHOOSE i \in S : \A j \in S : i >= j

\* Variant of LookUpSubnet that returns the last match, without error.
LookUpSubnetLast(n, name) ==
    IF Found(n, name) = {} THEN [subnet |-> 0, err |-> "NotFound"]
    ELSE [subnet |-> Last(Found(n, name)), err |-> NoErr]

\* Variant of LookUpSubnet that treats any number of matches as one match.
LookUpSubnetAnyMatch(n, name) ==
    IF Len(n.Subnets) = 0 THEN [subnet |-> 0, err |-> "NotFound"]
    ELSE IF Cardinality(Found(n, name)) >= 1
         THEN [subnet |-> First(Found(n, name)), err |-> NoErr]
    ELSE [subnet |-> 0, err |-> "NotFound"]

LookUpSubnet(n, name) ==
    IF Len(n.Subnets) = 0 THEN [subnet |-> 0, err |-> "NotFound"]
    ELSE IF Cardinality(Found(n, name)) = 1
         THEN [subnet |-> First(Found(n, name)), err |-> NoErr]
    ELSE IF Cardinality(Found(n, name)) > 1
         THEN [subnet |-> First(Found(n, name)), err |-> "AmbiguousName"]
    ELSE [subnet |-> 0, err |-> "NotFound"]

\* A call of LookUpSubnet: the network is only read.
LookUpSubnetCall(name) ==
    /\ pc = "running"
    /\ ret' = [op |-> "LookUpSubnet", name |-> name,
               subnet |-> LookUpSubnet(iNet, name).subnet,
               err |-> LookUpSubnet(iNet, name).err]
    /\ UNCHANGED << iNet, pc, calls >>

\* strings.EqualFold compares under Unicode case folding.  The names of the
\* model are "a", "A" and the all-lower-case cabinet names, so folding maps
\* "A" to "a" and leaves the others as they are.
FoldCase(name) == IF name = "A" THEN "a" ELSE name

EqualFold(s, t) == FoldCase(s) = FoldCase(t)

\* SubnetbyName returns a copy of the first subnet whose name matches under
\* EqualFold, or the zero subnet.
SubnetbyName(n, name) ==
    LET matches == { i \in 1 .. Len(n.Subnets) : EqualFold(n.Subnets[i].Name, name) }
    IN  IF matches = {} THEN BlankSubnet ELSE n.Subnets[First(matches)]

SubnetbyNameCall(name) ==
    /\ pc = "running"
    /\ ret' = [op |-> "SubnetbyName", name |-> name, value |-> SubnetbyName(iNet, name)]
    /\ UNCHANGED << iNet, pc, calls >>

\* ------------------------------------------------------------------ subnet
RECURSIVE ReservedFrom(_, _)
ReservedFrom(reservations, i) ==
    IF i > Len(reservations) THEN << >>
    ELSE << reservations[i].IPAddress >> \o ReservedFrom(reservations, i + 1)

ReservedIPs(s) == ReservedFrom(s.IPReservations, 1)

\* The zero IPReservation.
BlankReservation == [IPAddress |-> Nil, Name |-> "", Comment |-> "", Aliases |-> << >>]

\* ReservationsByName: the map built by storing every reservation under its
\* name, in list order; a later entry replaces an earlier one of the same name.
RECURSIVE MapFrom(_, _, _)
MapFrom(reservations, i, m) ==
    IF i > Len(reservations) THEN m
    ELSE MapFrom(reservations, i + 1,
                 [n \in DOMAIN m \cup { reservations[i].Name } |->
                     IF n = reservations[i].Name THEN reservations[i] ELSE m[n]])

ReservationsByName(s) == MapFrom(s.IPReservations, 1, << >>)

\* Indexing a Go map: the zero value for a key that is not there.
MapIndex(m, name) == IF name \in DOMAIN m THEN m[name] ELSE BlankReservation

\* LookupReservation: the first reservation with exactly that name, or the
\* zero reservation.
LookupReservation(s, resName) ==
    LET matches == { k \in 1 .. Len(s.IPReservations) : resName = s.IPReservations[k].Name }
    IN  IF matches = {} THEN BlankReservation ELSE s.IPReservations[First(matches)]

\* Calls of the two lookups: the subnet is only read.
ReservationsByNameCall(i) ==
    /\ pc = "running"
    /\ i \in 1 .. Len(iNet.Subnets)
    /\ ret' = [op |-> "ReservationsByName", subnet |-> i,
               value |-> ReservationsByName(iNet.Subnets[i])]
    /\ UNCHANGED << iNet, pc, calls >>

LookupReservationCall(i, resName) ==
    /\ pc = "running"
    /\ i \in 1 .. Len(iNet.Subnets)
    /\ ret' = [op |-> "LookupReservation", subnet |-> i, name |-> resName,
               value |-> LookupReservation(iNet.Subnets[i], resName)]
    /\ UNCHANGED << iNet, pc, calls >>

\* Go's int has 64 bits on the platforms the tool is built for.  A count that
\* can exceed 2^31 - 1 is kept as two limbs: [hi, lo] stands for hi * 2^16 + lo.
Limb == 65536

Wide(x) == [hi |-> x \div Limb, lo |-> x % Limb]

WideInt(w) == w.hi * Limb + w.lo

WideDouble(w) == [hi |-> 2 * w.hi + (2 * w.lo) \div Limb, lo |-> (2 * w.lo) % Limb]

WideSub(w, n) ==
    IF w.lo >= n THEN [hi |-> w.hi, lo |-> w.lo - n]
    ELSE [hi |-> w.hi - 1, lo |-> w.lo + Limb - n]

RECURSIVE ShiftLeft(_, _)
ShiftLeft(w, k) == IF k = 0 THEN w ELSE ShiftLeft(WideDouble(w), k - 1)

\* 2 << uint(31 - maskSize): for maskSize 32 the count is uint(-1) = 2^64 - 1,
\* and a shift by 64 or more gives 0.
TotalIPAddressesOf(maskSize) ==
    IF 31 - maskSize < 0 THEN Wide(0) ELSE ShiftLeft(Wide(2), 31 - maskSize)

\* Variant of UsableHostAddressesOf without the /31 case.
UsableHostAddressesNo31(maskSize) ==
    IF maskSize = 32 THEN Wide(1)
    ELSE WideSub(TotalIPAddressesOf(maskSize), 2)

UsableHostAddressesOf(maskSize) ==
    IF maskSize = 32 THEN Wide(1)
    ELSE IF maskSize = 31 THEN Wide(2)
    ELSE WideSub(TotalIPAddressesOf(maskSize), 2)

TotalIPAddresses(s) == WideInt(TotalIPAddressesOf(s.CIDR.Mask))

UsableHostAddresses(s) == WideInt(UsableHostAddressesOf(s.CIDR.Mask))

\* Calls of the two counting methods: the subnet is only read.
TotalIPAddressesCall(i) ==
    /\ pc = "running"
    /\ i \in 1 .. Len(iNet.Subnets)
    /\ ret' = [op |-> "TotalIPAddresses", subnet |-> i,
               value |-> TotalIPAddressesOf(iNet.Subnets[i].CIDR.Mask)]
    /\ UNCHANGED << iNet, pc, calls >>

UsableHostAddressesCall(i) ==
    /\ pc = "running"
    /\ i \in 1 .. Len(iNet.Subnets)
    /\ ret' = [op |-> "UsableHostAddresses", subnet |-> i,
               value |-> UsableHostAddressesOf(iNet.Subnets[i].CIDR.Mask)]
    /\ UNCHANGED << iNet, pc, calls >>

\* The single pass of AddReservation over the reserved addresses: tempIP is
\* bumped by one each time it equals the element under the cursor.
RECURSIVE ScanReserved(_, _)
ScanReserved(tempIP, reserved) ==
    IF reserved = << >> THEN tempIP
    ELSE ScanReserved(IF tempIP = Head(reserved) THEN Add(tempIP, 1) ELSE tempIP,
                      Tail(reserved))

\* Variants of NextReservationIP with a plausible slip: no scan of the reserved
\* list; counting from offset 1 (the gateway) instead of offset 2.
NextReservationIPNoScan(s) == Add(s.CIDR.IP, 2)

NextReservationIPFromGateway(s) == ScanReserved(Add(s.CIDR.IP, 1), ReservedIPs(s))

NextReservationIP(s) == ScanReserved(Add(s.CIDR.IP, 2), ReservedIPs(s))

\* Variant of AddReservation that also moves DHCPStart past the new reservation.
AddReservationMoveStart(i, name, comment) ==
    /\ pc = "running"
    /\ i \in 1 .. Len(iNet.Subnets)
    /\ Len(iNet.Subnets[i].IPReservations) < MaxReservations
    /\ iNet' = [iNet EXCEPT !.Subnets[i].IPReservations = Append(@,
                   [IPAddress |-> NextReservationIP(iNet.Subnets[i]), Name |-> name,
                    Comment |-> comment, Aliases |-> << >>]),
                            !.Subnets[i].DHCPStart =
                                Add(NextReservationIP(iNet.Subnets[i]), 1)]
    /\ ret' = [op |-> "AddReservation", name |-> name, subnet |-> i,
               reservation |-> Len(iNet.Subnets[i].IPReservations) + 1]
    /\ UNCHANGED << pc, calls >>

AddReservation(i, name, comment) ==
    /\ pc = "running"
    /\ i \in 1 .. Len(iNet.Subnets)
    /\ Len(iNet.Subnets[i].IPReservations) < MaxReservations
    /\ iNet' = [iNet EXCEPT !.Subnets[i].IPReservations = Append(@,
                   [IPAddress |-> NextReservationIP(iNet.Subnets[i]), Name |-> name,
                    Comment |-> comment, Aliases |-> << >>])]
    /\ ret' = [op |-> "AddReservation", name |-> name, subnet |-> i,
               reservation |-> Len(iNet.Subnets[i].IPReservations) + 1]
    /\ UNCHANGED << pc, calls >>

\* Variant of PinnedIP that takes the pin as an offset from the subnet's address.
PinnedIPOffset(s, pin) == Add(s.CIDR.IP, pin)

\* The first three bytes of the subnet's address followed by the pinned byte.
PinnedIP(s, pin) == (s.CIDR.IP \div 256) * 256 + pin

AddReservationWithPin(i, name, comment, pin) ==
    /\ pc = "running"
    /\ i \in 1 .. Len(iNet.Subnets)
    /\ Len(iNet.Subnets[i].IPReservations) < MaxReservations
    /\ iNet' = [iNet EXCEPT !.Subnets[i].IPReservations = Append(@,
                   [IPAddress |-> PinnedIP(iNet.Subnets[i], pin), Name |-> name,
                    Comment |-> comment, Aliases |-> << comment >>])]
    /\ ret' = [op |-> "AddReservationWithPin", name |-> name, subnet |-> i, pin |-> pin,
               reservation |-> Len(iNet.Subnets[i].IPReservations) + 1]
    /\ UNCHANGED << pc, calls >>

\* The loop of UpdateDHCPRange: while ip is reserved, DHCPStart = ip + 2 and
\* ip = ip + 1.  Returns the final DHCPStart.
RECURSIVE DHCPStartLoop(_, _, _)
DHCPStartLoop(ip, start, reserved) ==
    IF NetIPInSlice(ip, reserved) > 0
    THEN DHCPStartLoop(Add(ip, 1), Add(ip, 2), reserved)
    ELSE start

SupernetHackSpan == 200

\* Variant of UpdatedDHCPRange that measures the supernet span from the first
\* probed address instead of the final DHCPStart.
UpdatedDHCPRangeEndFromIP(s, applySupernetHack) ==
    LET myReservedIPs == ReservedIPs(s)
        ip == Add(s.CIDR.IP, Len(myReservedIPs) + 2)
        start == DHCPStartLoop(ip, ip, myReservedIPs)
    IN  [s EXCEPT !.DHCPStart = start,
                  !.DHCPEnd = IF applySupernetHack THEN Add(ip, SupernetHackSpan)
                              ELSE Add(Broadcast(s.CIDR), 0 - 1)]

UpdatedDHCPRange(s, applySupernetHack) ==
    LET myReservedIPs == ReservedIPs(s)
        ip == Add(s.CIDR.IP, Len(myReservedIPs) + 2)
        start == DHCPStartLoop(ip, ip, myReservedIPs)
    IN  [s EXCEPT !.DHCPStart = start,
                  !.DHCPEnd = IF applySupernetHack THEN Add(start, SupernetHackSpan)
                              ELSE Add(Broadcast(s.CIDR), 0 - 1)]

\* Variant of UpdateDHCPRange whose capacity test is >= instead of >.
UpdateDHCPRangeGE(i, applySupernetHack) ==
    /\ pc = "running"
    /\ i \in 1 .. Len(iNet.Subnets)
    /\ IF Len(ReservedIPs(iNet.Subnets[i])) >= UsableHostAddresses(iNet.Subnets[i])
       THEN /\ pc' = "fatal"
            /\ iNet' = iNet
            /\ ret' = [op |-> "UpdateDHCPRange", subnet |-> i,
                       applySupernetHack |-> applySupernetHack, err |-> "CapacityExceeded"]
       ELSE /\ pc' = pc
            /\ iNet' = [iNet EXCEPT !.Subnets[i] = UpdatedDHCPRange(@, applySupernetHack)]
            /\ ret' = [op |-> "UpdateDHCPRange", subnet |-> i,
                       applySupernetHack |-> applySupernetHack, err |-> NoErr]
    /\ UNCHANGED calls

UpdateDHCPRange(i, applySupernetHack) ==
    /\ pc = "running"
    /\ i \in 1 .. Len(iNet.Subnets)
    /\ IF Len(ReservedIPs(iNet.Subnets[i])) > UsableHostAddresses(iNet.Subnets[i])
       THEN /\ pc' = "fatal"
            /\ iNet' = iNet
            /\ ret' = [op |-> "UpdateDHCPRange", subnet |-> i,
                       applySupernetHack |-> applySupernetHack, err |-> "CapacityExceeded"]
       ELSE /\ pc' = pc
            /\ iNet' = [iNet EXCEPT !.Subnets[i] = UpdatedDHCPRange(@, applySupernetHack)]
            /\ ret' = [op |-> "UpdateDHCPRange", subnet |-> i,
                       applySupernetHack |-> applySupernetHack, err |-> NoErr]
    /\ UNCHANGED calls

\* ---------------------------------------------------------- specifications
NewNetwork(c) == [CIDR |-> c, Name |-> "NMN", VlanRange |-> << 2, 5 >>, Subnets |-> << >>]

NoCall == [op |-> "new", name |-> "", mask |-> 0, subnet |-> 0, err |-> NoErr]

Init ==
    /\ \E c \in NetCIDRs : iNet = NewNetwork(c)
    /\ ret = NoCall
    /\ pc = "running"
    /\ calls = NoCalls

Next ==
    \/ \E d \in DesiredNets, n \in SubnetNames, v \in VlanIDs : AddSubnetbyCIDR(d, n, v)
    \/ \E m \in Masks, n \in SubnetNames, v \in VlanIDs : AddSubnet(m, n, v)
    \/ \E m \in Masks, n \in SubnetNames, v \in VlanIDs : AddBiggestSubnet(m, n, v)
    \/ \E c \in CabinetInputs, m \in GenMasks, t \in CabinetTypes : GenSubnets(c, m, t)
    \/ \E n \in LookupNames : LookUpSubnetCall(n)
    \/ \E n \in LookupNames : SubnetbyNameCall(n)

Spec == Init /\ [][Next]_vars

\* One subnet of a /27 network, as AddSubnetbyCIDR leaves it, then any mix of
\* reservation calls and DHCP-range updates on it.
InitSubnet ==
    /\ \E c \in SubnetCIDRs :
          iNet = [NewNetwork([IP |-> TenNet, Mask |-> 27]) EXCEPT
                     !.Subnets = << SubnetbyCIDR(c, "a", 1) >>]
    /\ ret = NoCall
    /\ pc = "running"
    /\ calls = NoCalls

NextSubnet ==
    \/ \E n \in ReservationNames, c \in Comments : AddReservation(1, n, c)
    \/ \E n \in ReservationNames, c \in Comments, p \in Pins : AddReservationWithPin(1, n, c, p)
    \/ \E h \in BOOLEAN : UpdateDHCPRange(1, h)

SpecSubnet == InitSubnet /\ [][NextSubnet]_vars

\* One subnet of every prefix length (0.0.0.0/p below /8, 10.0.0.0/p from /8
\* on), as AddSubnetbyCIDR leaves it in a network of the same block; then the
\* counting methods, the reservation lookups and AddReservation calls on it.
PrefixLengths == 0 .. 32

CountCIDR(p) == [IP |-> IF p < 8 THEN 0 ELSE TenNet, Mask |-> p]

InitCount ==
    /\ \E p \in PrefixLengths :
          iNet = [NewNetwork(CountCIDR(p)) EXCEPT
                     !.Subnets = << SubnetbyCIDR(CountCIDR(p), "a", 1) >>]
    /\ ret = NoCall
    /\ pc = "running"
    /\ calls = NoCalls

NextCount ==
    \/ TotalIPAddressesCall(1)
    \/ UsableHostAddressesCall(1)
    \/ ReservationsByNameCall(1)
    \/ \E n \in ReservationNames : LookupReservationCall(1, n)
    \/ \E n \in ReservationNames, c \in Comments : AddReservation(1, n, c)

SpecCount == InitCount /\ [][NextCount]_vars

\* Several callers of AddSubnet on one empty network, their steps interleaved
\* in any order; each caller makes one call.
InitInterleaved ==
    /\ \E c \in NetCIDRs : iNet = NewNetwork(c)
    /\ ret = NoCall
    /\ pc = "running"
    /\ calls = NoCalls

NextInterleaved ==
    \/ \E c \in Callers, m \in Masks, n \in SubnetNames, v \in VlanIDs : ReadSiblings(c, m, n, v)
    \/ \E c \in Callers : ChooseBlock(c)
    \/ \E c \in Callers : LoadSubnets(c)
    \/ \E c \in Callers : StoreSubnets(c)

SpecInterleaved == InitInterleaved /\ [][NextInterleaved]_vars

TypeOK == pc \in { "running", "fatal" }

\* ------------------------------------------------------------- properties
Subnets == iNet.Subnets

InBlock(ip, block) == NetworkAddress(block) <= ip /\ ip <= Broadcast(block)

Unpinned(s) == \A k \in 1 .. Len(s.IPReservations) : s.IPReservations[k].Aliases = << >>

\* C1: every subnet's block is contained in the network's block and no two
\* subnets of the network overlap, after any mix of subnet-creation calls.
C1_SubnetsContainedAndDisjoint ==
    /\ \A i \in 1 .. Len(Subnets) : Contains(iNet.CIDR, Subnets[i].CIDR)
    /\ \A i, j \in 1 .. Len(Subnets) :
          i < j => ~ Overlaps(Subnets[i].CIDR, Subnets[j].CIDR)

\* C2: when no reservation of a subnet is pinned (all came from AddReservation
\* on an empty list), the reservation addresses are pairwise distinct.
C2_UnpinnedDistinct ==
    \A i \in 1 .. Len(Subnets) :
       Unpinned(Subnets[i]) =>
          \A k, l \in 1 .. Len(Subnets[i].IPReservations) :
             k # l => Subnets[i].IPReservations[k].IPAddress
                        # Subnets[i].IPReservations[l].IPAddress

C2_Witness ==
    /\ Len(Subnets) = 1
    /\ Len(Subnets[1].IPReservations) = 3
    /\ Unpinned(Subnets[1])
    /\ ret.op = "AddReservation"

\* C3: the reservation appended by AddReservation has an address that differs
\* from every address that was in the list before the call.
C3_AddReservationFresh ==
    ret.op = "AddReservation" =>
       LET r == Subnets[ret.subnet].IPReservations
       IN  \A k \in 1 .. Len(r) - 1 : r[k].IPAddress # r[Len(r)].IPAddress

\* C4: after UpdateDHCPRange(false) completes, no reservation address lies in
\* [DHCPStart, DHCPEnd] and DHCPEnd is the broadcast address minus 1.
C4_DHCPRangeExcludesReservations ==
    (ret.op = "UpdateDHCPRange" /\ ret.err = NoErr /\ ~ ret.applySupernetHack) =>
       LET s == Subnets[ret.subnet]
       IN  /\ s.DHCPEnd = Broadcast(s.CIDR) - 1
           /\ \A k \in 1 .. Len(s.IPReservations) :
                 ~ (s.DHCPStart <= s.IPReservations[k].IPAddress
                    /\ s.IPReservations[k].IPAddress <= s.DHCPEnd)

\* C5: every reservation's address lies within its subnet's CIDR block.
C5_ReservationsInBlock ==
    \A i \in 1 .. Len(Subnets) :
       \A k \in 1 .. Len(Subnets[i].IPReservations) :
          InBlock(Subnets[i].IPReservations[k].IPAddress, Subnets[i].CIDR)

\* C6: every block that AddSubnet, AddBiggestSubnet or GenSubnets adds is
\* contained in the network's block and overlaps none of the subnets that
\* precede it in the list.
C6_NewBlockFree ==
    [][ret'.op \in { "AddSubnet", "AddBiggestSubnet", "GenSubnets" } =>
          \A j \in Len(iNet.Subnets) + 1 .. Len(iNet'.Subnets) :
             /\ Contains(iNet'.CIDR, iNet'.Subnets[j].CIDR)
             /\ \A i \in 1 .. j - 1 :
                   ~ Overlaps(iNet'.Subnets[i].CIDR, iNet'.Subnets[j].CIDR)]_vars

C6_Witness ==
    /\ ret.op = "GenSubnets"
    /\ ret.err = NoErr
    /\ Len(Subnets) = 3
    /\ Subnets[1].NetName = ""
    /\ Subnets[1].DHCPStart = Nil
    /\ Subnets[3].DHCPStart # Nil

\* C7: AddBiggestSubnet succeeds exactly when some prefix length L with
\* mask <= L <= 29 has a free aligned block, and then returns a subnet of the
\* smallest such L.
Fits(n, mask) ==
    { L \in mask .. 29 : Free(n.CIDR, L, AllocatedSubnets(n)).err = NoErr }

C7_BiggestUpTo29 ==
    [][ret'.op = "AddBiggestSubnet" =>
          IF Fits(iNet, ret'.mask) = {}
          THEN ret'.err # NoErr
          ELSE /\ ret'.err = NoErr
               /\ iNet'.Subnets[ret'.subnet].CIDR.Mask
                    = First(Fits(iNet, ret'.mask))]_vars

\* C8 (as stated): LookUpSubnet(name) right after a successful
\* AddSubnet(mask, name, vlan) returns the subnet that call created.
C8_LookupReturnsNew ==
    (ret.op = "AddSubnet" /\ ret.err = NoErr) =>
       LookUpSubnet(iNet, ret.name).subnet = ret.subnet

\* C8 (amended): right after a successful AddSubnet(mask, name, vlan),
\* LookUpSubnet(name) returns the created subnet without error when no earlier
\* subnet has that name, and otherwise returns the first subnet of that name
\* together with the ambiguous-name error.
C8_LookupAfterAddSubnet ==
    (ret.op = "AddSubnet" /\ ret.err = NoErr) =>
       LET earlier == { i \in 1 .. ret.subnet - 1 : Subnets[i].Name = ret.name }
           l == LookUpSubnet(iNet, ret.name)
       IN  IF earlier = {}
           THEN l.subnet = ret.subnet /\ l.err = NoErr
           ELSE l.subnet = First(earlier) /\ l.err = "AmbiguousName"

C8_Witness ==
    /\ ret.op = "AddSubnet"
    /\ ret.err = NoErr
    /\ ret.subnet = 2
    /\ Subnets[1].Name # ret.name

\* C9: when every subnet of the network was made by AddSubnet with one mask,
\* the subnet list holds, in call order, the consecutive mask-aligned blocks
\* starting at the network's base address, and each call returns the block it
\* appended last.
ByAddSubnet(mask) ==
    \A i \in 1 .. Len(Subnets) :
       Subnets[i].NetName = iNet.Name /\ Subnets[i].CIDR.Mask = mask

C9_ConsecutiveBlocks ==
    \A m \in Masks :
       ByAddSubnet(m) =>
          /\ \A i \in 1 .. Len(Subnets) :
                Subnets[i].CIDR.IP = NetworkAddress(iNet.CIDR) + (i - 1) * BlockSize(m)
          /\ (ret.op = "AddSubnet" /\ ret.err = NoErr) => ret.subnet = Len(Subnets)

C9_Witness ==
    /\ ret.op = "AddSubnet"
    /\ ret.err = NoErr
    /\ Len(Subnets) = 2
    /\ ByAddSubnet(30)
    /\ Subnets[2].CIDR.IP = TenNet + 4

\* C10: on a subnet without pinned reservations the k-th reservation has the
\* address at offset k + 1 from the subnet's address, and AddReservation
\* returns the reservation it stored last.
C10_SequentialOffsets ==
    \A i \in 1 .. Len(Subnets) :
       Unpinned(Subnets[i]) =>
          /\ \A k \in 1 .. Len(Subnets[i].IPReservations) :
                Subnets[i].IPReservations[k].IPAddress = Add(Subnets[i].CIDR.IP, k + 1)
          /\ (ret.op = "AddReservation" /\ ret.subnet = i) =>
                ret.reservation = Len(Subnets[i].IPReservations)

C10_Witness ==
    /\ Len(Subnets) = 1
    /\ Subnets[1].CIDR = [IP |-> TenNet, Mask |-> 28]
    /\ Len(Subnets[1].IPReservations) = 3
    /\ Unpinned(Subnets[1])
    /\ Subnets[1].IPReservations[3].IPAddress = TenNet + 4

\* C11: AddReservationWithPin appends exactly one reservation; its address has
\* the pin as lowest byte and the three upper bytes of the subnet's address,
\* whatever is already reserved (a duplicate address is accepted).
C11_PinnedAddress ==
    [][ret'.op = "AddReservationWithPin" =>
          LET old == iNet.Subnets[ret'.subnet].IPReservations
              new == iNet'.Subnets[ret'.subnet].IPReservations
          IN  /\ Len(new) = Len(old) + 1
              /\ SubSeq(new, 1, Len(old)) = old
              /\ ret'.reservation = Len(new)
              /\ new[Len(new)].IPAddress % 256 = ret'.pin
              /\ new[Len(new)].IPAddress \div 256
                   = iNet.Subnets[ret'.subnet].CIDR.IP \div 256]_vars

C11_Witness ==
    /\ ret.op = "AddReservationWithPin"
    /\ Subnets[1].CIDR.IP = TenNet + 8
    /\ LET r == Subnets[1].IPReservations
       IN  /\ Len(r) = 3
           /\ r[3].IPAddress = TenNet + 6
           /\ \E k \in 1 .. 2 : r[k].IPAddress = r[3].IPAddress

\* C12: AddSubnet fails with the no-space error when the network holds no free
\* aligned block of the requested mask (always so when the requested block is
\* larger than the network), and then leaves the subnet list unchanged.
AlignedBlocks(n, mask) ==
    { b \in NetworkAddress(n.CIDR) .. Broadcast(n.CIDR) :
         /\ b % BlockSize(mask) = 0
         /\ b + BlockSize(mask) - 1 <= Broadcast(n.CIDR) }

BlockIsFree(n, b, mask) ==
    \A i \in 1 .. Len(n.Subnets) :
       \/ Broadcast(n.Subnets[i].CIDR) < b
       \/ b + BlockSize(mask) - 1 < NetworkAddress(n.Subnets[i].CIDR)

NoFreeBlock(n, mask) == \A b \in AlignedBlocks(n, mask) : ~ BlockIsFree(n, b, mask)

C12_NoSpaceLeavesListUnchanged ==
    [][(ret'.op = "AddSubnet" /\ NoFreeBlock(iNet, ret'.mask)) =>
          /\ ret'.err = "NoSpaceAvailable"
          /\ ret'.subnet = 0
          /\ iNet' = iNet]_vars

C12_Witness ==
    /\ ret.op = "AddSubnet"
    /\ ret.err = "NoSpaceAvailable"
    /\ ret.mask = 27
    /\ iNet.CIDR.Mask = 28
    /\ Len(Subnets) = 1

C12_WitnessExhausted ==
    /\ ret.op = "AddSubnet"
    /\ ret.err = "NoSpaceAvailable"
    /\ ret.mask = 30
    /\ iNet.CIDR.Mask = 28
    /\ Len(Subnets) = 1

\* C13: AddSubnetbyCIDR succeeds exactly when the block lies inside the
\* network's block; on success it appends one subnet with that CIDR, name and
\* VLAN id and keeps the earlier subnets; otherwise it returns the
\* out-of-range error and the subnet list is unchanged.
RangeInside(inner, outer) ==
    /\ NetworkAddress(outer) <= NetworkAddress(inner)
    /\ Broadcast(inner) <= Broadcast(outer)

C13_AddByCIDR ==
    [][ret'.op = "AddSubnetbyCIDR" =>
          IF RangeInside(ret'.cidr, iNet.CIDR)
          THEN /\ ret'.err = NoErr
               /\ Len(iNet'.Subnets) = Len(iNet.Subnets) + 1
               /\ SubSeq(iNet'.Subnets, 1, Len(iNet.Subnets)) = iNet.Subnets
               /\ ret'.subnet = Len(iNet'.Subnets)
               /\ iNet'.Subnets[ret'.subnet].CIDR = ret'.cidr
               /\ iNet'.Subnets[ret'.subnet].Name = ret'.name
               /\ iNet'.Subnets[ret'.subnet].VlanID = ret'.vlanID
               /\ iNet'.CIDR = iNet.CIDR
          ELSE /\ ret'.err = "OutOfRange"
               /\ iNet' = iNet]_vars

C13_Witness ==
    /\ ret.op = "AddSubnetbyCIDR"
    /\ ret.err = NoErr
    /\ Len(Subnets) = 2
    /\ Subnets[2].CIDR = [IP |-> TenNet + 8, Mask |-> 29]
    /\ Subnets[1].NetName = iNet.Name

C13_WitnessOutOfRange ==
    /\ ret.op = "AddSubnetbyCIDR"
    /\ ret.err = "OutOfRange"
    /\ ret.cidr = [IP |-> TenNet + 32, Mask |-> 29]
    /\ Len(Subnets) = 1

\* C14: LookUpSubnet(name) returns the subnet and no error when exactly one
\* subnet has that name, the not-found error when none has it (also on an empty
\* network), and the ambiguous-name error with the first subnet of that name
\* in allocation order when several have it.
Named(name) == { i \in 1 .. Len(Subnets) : Subnets[i].Name = name }

C14_LookupCases ==
    ret.op = "LookUpSubnet" =>
       LET c == Cardinality(Named(ret.name))
       IN  /\ c = 0 => (ret.err = "NotFound" /\ ret.subnet = 0)
           /\ c = 1 => (ret.err = NoErr /\ ret.subnet \in Named(ret.name))
           /\ c > 1 => /\ ret.err = "AmbiguousName"
                       /\ ret.subnet \in Named(ret.name)
                       /\ \A i \in Named(ret.name) : ret.subnet <= i

C14_Witness ==
    /\ ret.op = "LookUpSubnet"
    /\ ret.err = "AmbiguousName"
    /\ ret.subnet = 1
    /\ Len(Subnets) = 2

\* C15: after UpdateDHCPRange(true) completes, DHCPEnd is DHCPStart + 200,
\* whatever the prefix length, the reservations and the broadcast address.
C15_SupernetSpan ==
    (ret.op = "UpdateDHCPRange" /\ ret.err = NoErr /\ ret.applySupernetHack) =>
       Subnets[ret.subnet].DHCPEnd = Subnets[ret.subnet].DHCPStart + 200

C15_Witness ==
    /\ ret.op = "UpdateDHCPRange"
    /\ ret.err = NoErr
    /\ ret.applySupernetHack
    /\ Subnets[1].CIDR = [IP |-> TenNet, Mask |-> 28]
    /\ Len(Subnets[1].IPReservations) = 1
    /\ Subnets[1].DHCPStart = TenNet + 5
    /\ Subnets[1].DHCPEnd > Broadcast(Subnets[1].CIDR)

\* C16: UpdateDHCPRange ends the run with the fatal capacity error exactly
\* when the subnet has more reservations than UsableHostAddresses(); otherwise
\* it completes and sets DHCPStart and DHCPEnd.
C16_FatalIffOverCapacity ==
    ret.op = "UpdateDHCPRange" =>
       LET s == Subnets[ret.subnet]
       IN  IF Len(s.IPReservations) > UsableHostAddresses(s)
           THEN pc = "fatal" /\ ret.err = "CapacityExceeded"
           ELSE /\ pc = "running"
                /\ ret.err = NoErr
                /\ s.DHCPStart # Nil
                /\ s.DHCPEnd # Nil

C16_Witness ==
    /\ pc = "fatal"
    /\ ret.op = "UpdateDHCPRange"
    /\ ret.err = "CapacityExceeded"
    /\ Subnets[1].CIDR.Mask = 30
    /\ Len(Subnets[1].IPReservations) = 3

C16_WitnessAtCapacity ==
    /\ pc = "running"
    /\ ret.op = "UpdateDHCPRange"
    /\ ret.err = NoErr
    /\ Subnets[1].CIDR.Mask = 30
    /\ Len(Subnets[1].IPReservations) = 2

\* C17: where UpdateDHCPRange completed, the reservation count is at most the
\* usable host-address count minus the gateway address, and a subnet filled by
\* AddReservation alone holds no reservation at its broadcast address.
C17_CapacityLeavesGateway ==
    (ret.op = "UpdateDHCPRange" /\ ret.err = NoErr) =>
       LET s == Subnets[ret.subnet]
       IN  /\ Len(s.IPReservations) <= UsableHostAddresses(s) - 1
           /\ Unpinned(s) =>
                 \A k \in 1 .. Len(s.IPReservations) :
                    s.IPReservations[k].IPAddress # Broadcast(s.CIDR)

\* C18: after UpdateDHCPRange completes, the subnet's gateway, DHCPStart and
\* DHCPEnd all lie within the subnet's CIDR block.
C18_GatewayAndRangeInBlock ==
    (ret.op = "UpdateDHCPRange" /\ ret.err = NoErr) =>
       LET s == Subnets[ret.subnet]
       IN  /\ InBlock(s.Gateway, s.CIDR)
           /\ InBlock(s.DHCPStart, s.CIDR)
           /\ InBlock(s.DHCPEnd, s.CIDR)

\* C20: AddReservation only appends one reservation at the end of the
\* subnet's reservation list: DHCPStart, DHCPEnd, gateway, CIDR and the earlier
\* reservations keep their values.
C20_AddReservationFrame ==
    [][ret'.op = "AddReservation" =>
          LET old == iNet.Subnets[ret'.subnet]
              new == iNet'.Subnets[ret'.subnet]
          IN  /\ Len(new.IPReservations) = Len(old.IPReservations) + 1
              /\ SubSeq(new.IPReservations, 1, Len(old.IPReservations))
                   = old.IPReservations
              /\ [new EXCEPT !.IPReservations = old.IPReservations] = old
              /\ \A j \in 1 .. Len(iNet.Subnets) :
                    j # ret'.subnet => iNet'.Subnets[j] = iNet.Subnets[j]
              /\ Len(iNet'.Subnets) = Len(iNet.Subnets)
              /\ pc' = pc]_vars

C20_Witness ==
    /\ ret.op = "AddReservation"
    /\ Len(Subnets[1].IPReservations) = 2
    /\ Subnets[1].DHCPStart = Subnets[1].CIDR.IP + 3
    /\ Subnets[1].IPReservations[2].IPAddress = Subnets[1].DHCPStart

\* C19: UsableHostAddresses() returns 2^(32-p) - 2 for a prefix length p from
\* 0 to 30, 2 for p = 31 and 1 for p = 32.
\* 2^(32-p) - 2 = 4 * q + 2 with q = 2^(30-p) - 1, written in two limbs.
TwoToThe32MinusPMinus2(p) ==
    [hi |-> (2 ^ (30 - p) - 1) \div 16384, lo |-> ((2 ^ (30 - p) - 1) % 16384) * 4 + 2]

C19_Witness31 ==
    /\ ret.op = "UsableHostAddresses"
    /\ Subnets[1].CIDR.Mask = 31
    /\ ret.value = [hi |-> 0, lo |-> 2]

\* ------------------------------------------------------------------- C21
\* The cabinets of the groups of the given kind, in input order.
RECURSIVE MatchingCabinets(_, _, _)
MatchingCabinets(cabinetDetails, kind, g) ==
    IF g > Len(cabinetDetails) THEN << >>
    ELSE (IF cabinetDetails[g].Kind = kind THEN cabinetDetails[g].CabinetDetails ELSE << >>)
         \o MatchingCabinets(cabinetDetails, kind, g + 1)

\* C21: a GenSubnets call that returns no error keeps the subnets that were
\* there as a prefix of the list and appends exactly one subnet per cabinet of
\* the groups of the given kind (none for other kinds), named cabinet_<id>, in
\* the order of the input.
C21_OneSubnetPerCabinet ==
    [][(ret'.op = "GenSubnets" /\ ret'.err = NoErr) =>
          LET cabs == MatchingCabinets(ret'.cabinetDetails, ret'.name, 1)
              old == Len(iNet.Subnets)
          IN  /\ Len(iNet'.Subnets) = old + Len(cabs)
              /\ SubSeq(iNet'.Subnets, 1, old) = iNet.Subnets
              /\ \A k \in 1 .. Len(cabs) :
                    iNet'.Subnets[old + k].Name = "cabinet_" \o ToString(cabs[k].ID)]_vars

\* One subnet was there before, two cabinets of the matching group were served.
C21_Witness ==
    /\ ret.op = "GenSubnets" /\ ret.err = NoErr /\ ret.name = "river"
    /\ Len(ret.cabinetDetails) = 1
    /\ Len(Subnets) = 3
    /\ Subnets[1].Name = "a"
    /\ Subnets[2].Name = "cabinet_1"
    /\ Subnets[3].Name = "cabinet_2"

\* A group of another kind stands between two matching groups and is skipped.
C21_WitnessOtherKind ==
    /\ ret.op = "GenSubnets" /\ ret.err = NoErr /\ ret.name = "river"
    /\ Len(ret.cabinetDetails) = 3
    /\ Len(Subnets) = 2
    /\ Subnets[1].Name = "cabinet_1"
    /\ Subnets[2].Name = "cabinet_3"

\* ------------------------------------------------------------------- C22
\* The orders of a list of n subnets, for every length a list can have.
ListOrders == [n \in 0 .. MaxSubnets + 1 |-> Permutations(1 .. n)]

\* The network with its subnet list rearranged by the permutation p.
Reordered(n, p) == [n EXCEPT !.Subnets = [k \in 1 .. Len(n.Subnets) |-> n.Subnets[p[k]]]]

\* The block AddSubnet gives for the mask: [cidr, err].
ChosenBlock(n, mask) ==
    LET r == AddSubnetResult(n, mask, "a", 1)
    IN  [cidr |-> IF r.err = NoErr THEN r.net.Subnets[r.subnet].CIDR ELSE [IP |-> Nil, Mask |-> 0],
         err |-> r.err]

\* Every subnet list is first reached by the construction of the network or by
\* one of the calls that add subnets; the lookups leave the list as it is.
ListMakers == { "new", "AddSubnetbyCIDR", "AddSubnet", "AddBiggestSubnet", "GenSubnets" }

HasBlock(c) == calls[c].at \in { "chosen", "loaded", "done" } /\ calls[c].err = NoErr

Appended(c) ==
    /\ calls[c].at = "done" /\ calls[c].err = NoErr
    /\ \E i \in 1 .. Len(Subnets) : Subnets[i] = CallSubnet(iNet, calls[c])

\* C23: nothing but the sibling list a call read keeps its block apart from
\* the others: the block of every interleaved AddSubnet call overlaps no block
\* of the list the call read, and two calls whose blocks overlap each read a
\* list without the other's block.  (The witness is the state the claim says
\* is reachable: both calls have appended, and their blocks overlap.)
C23_OnlyTheReadProtects ==
    /\ \A c \in Callers : HasBlock(c) =>
          \A i \in 1 .. Len(calls[c].siblings) :
              ~ Overlaps(calls[c].block, calls[c].siblings[i])
    /\ \A c, d \in Callers :
          (c # d /\ HasBlock(c) /\ HasBlock(d) /\ Overlaps(calls[c].block, calls[d].block)) =>
              /\ CountIn(calls[d].block, calls[c].siblings) = 0
              /\ CountIn(calls[c].block, calls[d].siblings) = 0

\* Both calls have appended their subnet, and the two blocks overlap.
C23_Witness ==
    \E c, d \in Callers :
        /\ c # d
        /\ Appended(c) /\ Appended(d)
        /\ calls[c].name # calls[d].name
        /\ Overlaps(calls[c].block, calls[d].block)
        /\ \E i, j \in 1 .. Len(Subnets) :
              /\ i # j
              /\ Subnets[i] = CallSubnet(iNet, calls[c])
              /\ Subnets[j] = CallSubnet(iNet, calls[d])

\* One of two appends is lost: both calls are done, one subnet is in the list.
C23_WitnessLostAppend ==
    /\ \A c \in Callers : calls[c].at = "done" /\ calls[c].err = NoErr
    /\ Len(Subnets) = 1

\* ------------------------------------------------------------------- C24
\* C24: after UpdateDHCPRange has completed, DHCPStart is not the address of
\* any reservation of the subnet.
C24_DHCPStartNotReserved ==
    (ret.op = "UpdateDHCPRange" /\ ret.err = NoErr) =>
        \A k \in 1 .. Len(Subnets[ret.subnet].IPReservations) :
            Subnets[ret.subnet].IPReservations[k].IPAddress # Subnets[ret.subnet].DHCPStart

\* ------------------------------------------------------------------- C25
\* The number of cabinets without an explicit VLAN id before position k.
AutoBefore(cabs, k) == Cardinality({ i \in 1 .. k - 1 : cabs[i].VlanID = 0 })

\* C25: after a GenSubnets call that returns no error, the subnet of a cabinet
\* with a non-zero VLAN id carries that id, and the cabinets without one carry
\* VlanRange[0], VlanRange[0] + 1, ... in the order they were processed.
C25_VlanExplicitOrSequential ==
    [][(ret'.op = "GenSubnets" /\ ret'.err = NoErr) =>
          LET cabs == MatchingCabinets(ret'.cabinetDetails, ret'.name, 1)
              old == Len(iNet.Subnets)
          IN  \A k \in 1 .. Len(cabs) :
                 iNet'.Subnets[old + k].VlanID =
                     IF cabs[k].VlanID # 0 THEN cabs[k].VlanID
                     ELSE iNet.VlanRange[1] + AutoBefore(cabs, k)]_vars

\* ------------------------------------------------------------------- C26
\* C26: within one GenSubnets call the VLAN ids given to cabinets without an
\* explicit id are pairwise distinct, across groups too, and lie within the
\* network's VLAN range.
C26_AutoVlansDistinctInRange ==
    [][(ret'.op = "GenSubnets" /\ ret'.err = NoErr) =>
          LET cabs == MatchingCabinets(ret'.cabinetDetails, ret'.name, 1)
              old == Len(iNet.Subnets)
              auto == { k \in 1 .. Len(cabs) : cabs[k].VlanID = 0 }
          IN  /\ \A k, l \in auto :
                    k # l => iNet'.Subnets[old + k].VlanID # iNet'.Subnets[old + l].VlanID
              /\ \A k \in auto :
                    /\ iNet.VlanRange[1] <= iNet'.Subnets[old + k].VlanID
                    /\ iNet'.Subnets[old + k].VlanID <= iNet.VlanRange[2]]_vars

\* ------------------------------------------------------------------- C27
\* C27: a GenSubnets call that returns an error leaves the network as it was;
\* a call that returns no error has added a subnet for every matching cabinet.
C27_AllOrNothing ==
    [][ret'.op = "GenSubnets" =>
          IF ret'.err # NoErr
          THEN iNet' = iNet
          ELSE Len(iNet'.Subnets) = Len(iNet.Subnets)
                   + Len(MatchingCabinets(ret'.cabinetDetails, ret'.name, 1))]_vars

\* The call failed on its second cabinet: the first one could be served (a
\* block of the size is free in the list as it is), the list is unchanged.
C27_Witness ==
    /\ ret.op = "GenSubnets" /\ ret.err # NoErr
    /\ Len(MatchingCabinets(ret.cabinetDetails, ret.name, 1)) = 2
    /\ Free(iNet.CIDR, ret.mask, AllocatedSubnets(iNet)).err = NoErr
    /\ \A i \in 1 .. Len(Subnets) : Subnets[i].DHCPStart = Nil

\* ------------------------------------------------------------------- C28
\* C28: what SubnetbyName(name) returns is the subnet LookUpSubnet(name)
\* returns whenever that lookup succeeds, and the blank subnet whenever that
\* lookup reports that the name is not found.
C28_LookupsAgree ==
    ret.op = "SubnetbyName" =>
        LET l == LookUpSubnet(iNet, ret.name)
        IN  /\ l.err = NoErr => ret.value = Subnets[l.subnet]
            /\ l.err = "NotFound" => ret.value = BlankSubnet

\* ------------------------------------------------------------------- C29
\* C29: LookupReservation(name) returns the reservation with the address of
\* ReservationsByName()[name], for every reachable reservation list and name.
C29_ReservationLookupsAgree ==
    ret.op = "LookupReservation" =>
        ret.value.IPAddress =
            MapIndex(ReservationsByName(Subnets[ret.subnet]), ret.name).IPAddress

\* ------------------------------------------------------------------- C30
\* 2^(32 - p) in the two-limb form: 2^(16 - p) * 2^16 + 0 up to /16, 2^(32 - p)
\* below the limb after that.
TwoToThe32MinusP(p) ==
    IF p <= 16 THEN [hi |-> 2 ^ (16 - p), lo |-> 0] ELSE [hi |-> 0, lo |-> 2 ^ (32 - p)]

\* C30: TotalIPAddresses returns 2^(32 - p) for the subnet's prefix length p,
\* for every p from 0 to 32.
C30_TotalIPAddresses ==
    ret.op = "TotalIPAddresses" =>
        ret.value = TwoToThe32MinusP(Subnets[ret.subnet].CIDR.Mask)
====
